---- MODULE Spec2Model ----
(***************************************************************************)
(* A model of stat.c, the Solaris version of the Linux "stat" command.     *)
(*                                                                         *)
(* The program is sequential: main() parses its options with getopt_long,  *)
(* then queries each path operand with stat() or lstat() and prints a      *)
(* block of lines for it.  The model follows main() statement by statement *)
(* (pc names the statement about to run) and records every system call and *)
(* every line written in one ordered trace.                                *)
(*                                                                         *)
(* Library calls are modelled by their documented Solaris behaviour:       *)
(*   - getopt_long permutes argv (the default mode), stops at "--";        *)
(*   - readlink() does not NUL-terminate the buffer it fills;              *)
(*   - perror() sets errno when the write to stderr fails;                 *)
(*   - getpwuid_r()/getgrgid_r() (4-argument Solaris form) return NULL     *)
(*     when there is no entry or the entry does not fit the buffer.        *)
(* The build modelled is the one the header names ("cc -o stat stat.c"):   *)
(* ILP32, char signed, 32-bit time_t (so localtime_r never fails).         *)
(***************************************************************************)
EXTENDS Integers, Sequences, FiniteSets, TLC

(***************************************************************************)
(* Bounds of the model.                                                    *)
(***************************************************************************)
\* the number of command-line words after argv[0]
MaxArgs == 3

(***************************************************************************)
(* Constants of <sys/stat.h>, <errno.h>, <sys/param.h>, <sys/mkdev.h>.     *)
(***************************************************************************)
S_IFMT   == 61440   \* 0xF000
S_IFIFO  == 4096    \* 0x1000
S_IFCHR  == 8192    \* 0x2000
S_IFDIR  == 16384   \* 0x4000
S_IFBLK  == 24576   \* 0x6000
S_IFREG  == 32768   \* 0x8000
S_IFLNK  == 40960   \* 0xA000
S_IFSOCK == 49152   \* 0xC000
S_IFDOOR == 53248   \* 0xD000
S_IFPORT == 57344   \* 0xE000
S_IAMB   == 511     \* 0x1FF
S_ISUID  == 2048    \* 04000
S_ISGID  == 1024    \* 02000
S_ISVTX  == 512     \* 01000
S_IRUSR  == 256
S_IWUSR  == 128
S_IXUSR  == 64
S_IRGRP  == 32
S_IWGRP  == 16
S_IXGRP  == 8
S_IROTH  == 4
S_IWOTH  == 2
S_IXOTH  == 1

ENOENT == 2
EBADF  == 9
EACCES == 13
EINVAL == 22

\* sizeof(uid_str), sizeof(gid_str)
UidStrSize == 1024
GidStrSize == 1024

\* L_BITSMINOR32 and L_MAXMIN32 + 1 of <sys/mkdev.h>
MinorSpan == 262144
MajorSpan == 16384

\* the local zone of the header's example output (-0500), in seconds
ZoneOffset == -18000

(***************************************************************************)
(* Bit tests.  st_mode & BIT for a one-bit mask, st_mode & S_IFMT.         *)
(***************************************************************************)
HasBit(st_mode, bit) == (st_mode \div bit) % 2 = 1

TypeBits(st_mode) == ((st_mode \div 4096) % 16) * 4096

(***************************************************************************)
(* The helper functions of stat.c.                                         *)
(***************************************************************************)
is_device_type(st_mode) ==
    TypeBits(st_mode) \in {S_IFCHR, S_IFBLK}

is_symlink(st_mode) == TypeBits(st_mode) = S_IFLNK

file_type(st_mode) ==
    CASE TypeBits(st_mode) = S_IFIFO  -> "named fifo"
      [] TypeBits(st_mode) = S_IFCHR  -> "character device"
      [] TypeBits(st_mode) = S_IFDIR  -> "directory"
      [] TypeBits(st_mode) = S_IFBLK  -> "block device"
      [] TypeBits(st_mode) = S_IFREG  -> "regular file"
      [] TypeBits(st_mode) = S_IFLNK  -> "symbolic link"
      [] TypeBits(st_mode) = S_IFSOCK -> "socket"
      [] TypeBits(st_mode) = S_IFDOOR -> "door"
      [] TypeBits(st_mode) = S_IFPORT -> "event port"
      [] OTHER -> "<unknown>"

file_type_char(st_mode) ==
    CASE TypeBits(st_mode) = S_IFIFO  -> "p"
      [] TypeBits(st_mode) = S_IFCHR  -> "c"
      [] TypeBits(st_mode) = S_IFDIR  -> "d"
      [] TypeBits(st_mode) = S_IFBLK  -> "b"
      [] TypeBits(st_mode) = S_IFREG  -> "-"
      [] TypeBits(st_mode) = S_IFLNK  -> "l"
      [] TypeBits(st_mode) = S_IFSOCK -> "s"
      [] TypeBits(st_mode) = S_IFDOOR -> "D"
      [] TypeBits(st_mode) = S_IFPORT -> "P"
      [] OTHER -> "?"

user_perms(st_mode) ==
       (IF HasBit(st_mode, S_IRUSR) THEN "r" ELSE "-")
    \o (IF HasBit(st_mode, S_IWUSR) THEN "w" ELSE "-")
    \o (IF HasBit(st_mode, S_ISUID)
          THEN (IF HasBit(st_mode, S_IXUSR) THEN "s" ELSE "S")
          ELSE (IF HasBit(st_mode, S_IXUSR) THEN "x" ELSE "-"))

group_perms(st_mode) ==
       (IF HasBit(st_mode, S_IRGRP) THEN "r" ELSE "-")
    \o (IF HasBit(st_mode, S_IWGRP) THEN "w" ELSE "-")
    \o (IF HasBit(st_mode, S_ISGID)
          THEN (IF HasBit(st_mode, S_IXGRP) THEN "s" ELSE "S")
          ELSE (IF HasBit(st_mode, S_IXGRP) THEN "x" ELSE "-"))

other_perms(st_mode) ==
       (IF HasBit(st_mode, S_IROTH) THEN "r" ELSE "-")
    \o (IF HasBit(st_mode, S_IWOTH) THEN "w" ELSE "-")
    \o (IF HasBit(st_mode, S_IXOTH) THEN "x" ELSE "-")

(***************************************************************************)
(* The identity databases.  An entry is the line the name service returns  *)
(* ("name:passwd:id:..."), with its length in bytes; the _r lookup copies  *)
(* the line into the caller's buffer and splits it in place, so the buffer *)
(* starts with the name.                                                   *)
(***************************************************************************)
Passwd ==
    (0 :> [fields |-> <<"root", "x", "0", "0", "Super-User", "/root", "/sbin/sh">>,
           bytes |-> 36])

Group ==
    (0 :> [fields |-> <<"root", "", "0", "">>, bytes |-> 9]) @@
    (7 :> [fields |-> <<"tty", "", "7", "root,adm">>, bytes |-> 16]) @@
    (10 :> [fields |-> <<"staff", "", "10", "a long member list">>, bytes |-> 1500])

\* getpwuid_r(uid, &pinfo, buffer, buflen): NULL (<<>>) or the filled buffer
getpwuid_r(the_uid, buflen) ==
    IF the_uid \in DOMAIN Passwd /\ Passwd[the_uid].bytes < buflen
      THEN Passwd[the_uid].fields
      ELSE <<>>

getgrgid_r(the_gid, buflen) ==
    IF the_gid \in DOMAIN Group /\ Group[the_gid].bytes < buflen
      THEN Group[the_gid].fields
      ELSE <<>>

\* the C string that starts at buf[0]
CString(buf) == buf[1]

get_uid_string(the_uid) ==
    IF getpwuid_r(the_uid, UidStrSize) # <<>>
      THEN CString(getpwuid_r(the_uid, UidStrSize))
      ELSE "<unknown>"

get_gid_string(the_gid) ==
    IF getgrgid_r(the_gid, GidStrSize) # <<>>
      THEN CString(getgrgid_r(the_gid, GidStrSize))
      ELSE "<unknown>"

(***************************************************************************)
(* localtime_r + strftime("%Y-%m-%d %H:%M:%S%z"): seconds since the epoch  *)
(* to the civil date and time of the local zone.                           *)
(***************************************************************************)
FloorDiv(a, b) == IF a >= 0 THEN a \div b ELSE -((-a + b - 1) \div b)

CivilFromDays(z0) ==
    LET z   == z0 + 719468
        era == FloorDiv(z, 146097)
        doe == z - era * 146097
        yoe == (doe - doe \div 1460 + doe \div 36524 - doe \div 146096) \div 365
        doy == doe - (365 * yoe + yoe \div 4 - yoe \div 100)
        mp  == (5 * doy + 2) \div 153
        d   == doy - (153 * mp + 2) \div 5 + 1
        m   == IF mp < 10 THEN mp + 3 ELSE mp - 9
        y   == yoe + era * 400 + (IF m <= 2 THEN 1 ELSE 0)
    IN  <<y, m, d>>

ZoneText(off) ==
    LET a == IF off < 0 THEN -off ELSE off
    IN  <<IF off < 0 THEN "-" ELSE "+", a \div 3600, (a % 3600) \div 60>>

strftime_local(t) ==
    LET l    == t + ZoneOffset
        days == FloorDiv(l, 86400)
        sod  == l - days * 86400
    IN  CivilFromDays(days)
          \o <<sod \div 3600, (sod % 3600) \div 60, sod % 60>>
          \o ZoneText(ZoneOffset)

(***************************************************************************)
(* The file system the paths are looked up in.  An entry is a file with    *)
(* its metadata record, a symbolic link (its own record and its target),   *)
(* or a name whose lookup is denied; any other name does not exist.  The   *)
(* links form no cycle.                                                    *)
(***************************************************************************)
StatRec(mode, uid, gid, size, ino, rdev, at, mt, ct) ==
    [st_mode |-> mode, st_uid |-> uid, st_gid |-> gid, st_size |-> size,
     st_blocks |-> (size + 511) \div 512, st_blksize |-> 8192,
     st_dev |-> 22282241, st_ino |-> ino, st_nlink |-> 1, st_rdev |-> rdev,
     st_atime |-> at, st_mtime |-> mt, st_ctime |-> ct]

FS ==
    ("reg" :> [kind |-> "file",
               st |-> StatRec(S_IFREG + 420, 0, 0, 1024, 11, 0,
                              1517501132, 1516683698, 1516683698)]) @@
    ("tmp" :> [kind |-> "file",
               st |-> StatRec(S_IFDIR + S_ISVTX + 511, 0, 10, 512, 12, 0,
                              951800399, 1078117200, 1483246799)]) @@
    ("tty" :> [kind |-> "file",
               st |-> StatRec(S_IFCHR + 400, 501, 7, 0, 13, 6291457,
                              1483246799, 951800399, 1078117200)]) @@
    ("lnk" :> [kind |-> "symlink", target |-> "tty",
               st |-> StatRec(S_IFLNK + 511, 0, 0, 3, 14, 0,
                              1078117200, 1483246799, 951800399)]) @@
    ("dangling" :> [kind |-> "symlink", target |-> "nope",
                    st |-> StatRec(S_IFLNK + 511, 501, 10, 4, 15, 0,
                                   1516683698, 1517501132, 1517501132)]) @@
    ("secret" :> [kind |-> "denied"])

PathWords == DOMAIN FS \cup {"nope"}

\* lstat(path, &buf): the entry itself
lstat(path) ==
    IF path \notin DOMAIN FS THEN [ret |-> -1, err |-> ENOENT]
    ELSE IF FS[path].kind = "denied" THEN [ret |-> -1, err |-> EACCES]
    ELSE [ret |-> 0, buf |-> FS[path].st]

\* stat(path, &buf): the entry the links lead to
RECURSIVE stat(_)
stat(path) ==
    IF path \in DOMAIN FS /\ FS[path].kind = "symlink"
      THEN stat(FS[path].target)
      ELSE lstat(path)

\* readlink(path, buf, bufsiz) when it succeeds: the bytes it stores
readlink(path) == FS[path].target

\* what readlink() may fail with after lstat() reported a link
ReadlinkErrors == {ENOENT, EACCES}

\* what may follow the stored bytes in the buffer, which readlink() does not
\* terminate and main() does not initialise: a NUL at once, or other bytes
Leftover == {"", "?!"}

strerror(e) ==
    CASE e = ENOENT -> "No such file or directory"
      [] e = EBADF  -> "Bad file number"
      [] e = EACCES -> "Permission denied"
      [] e = EINVAL -> "Invalid argument"
      [] OTHER -> "Unknown error"

major(rdev) == (rdev \div MinorSpan) % MajorSpan
minor(rdev) == rdev % MinorSpan

(***************************************************************************)
(* The command line.                                                       *)
(***************************************************************************)
OptionWords == {"-h", "--help", "-L", "--dereference", "-x"}

\* the words a command line is made of in this model
ArgWords == {"-L", "--help", "-x", "--"} \cup PathWords

\* the value getopt_long returns for an option word ("hL", long_options)
OptChar(w) ==
    CASE w \in {"-h", "--help"} -> "h"
      [] w \in {"-L", "--dereference"} -> "L"
      [] OTHER -> "?"

RECURSIVE SeqsUpTo(_)
SeqsUpTo(n) ==
    IF n = 0 THEN {<<>>}
    ELSE LET shorter == SeqsUpTo(n - 1)
         IN  shorter \cup {Append(s, w) : s \in {t \in shorter : Len(t) = n - 1},
                                            w \in ArgWords}

(***************************************************************************)
(* State.                                                                  *)
(***************************************************************************)
VARIABLES
    argv,             \* argv[0..argc-1], kept at indices 1..argc
    optind,           \* getopt's index of the next word to scan (C index)
    follow_symlinks,
    rc,
    argn,
    errno,
    finfo,            \* struct stat of the current iteration
    atime_str, mtime_str, ctime_str,
    pc,               \* the statement main() is about to execute
    status,           \* the exit status of the process; -1 while it runs
    trace             \* system calls made and lines written, in order

vars == <<argv, optind, follow_symlinks, rc, argn, errno, finfo,
          atime_str, mtime_str, ctime_str, pc, status, trace>>

argc == Len(argv)

\* argv[i] for a C index i
Arg(i) == argv[i + 1]

NoInfo == [st_mode |-> 0]

Init ==
    /\ argv \in {<<"stat">> \o w : w \in SeqsUpTo(MaxArgs)}
    /\ optind = 1
    /\ follow_symlinks = 0
    /\ rc = 0
    /\ argn = 1
    /\ errno = 0
    /\ finfo = NoInfo
    /\ atime_str = <<>>
    /\ mtime_str = <<>>
    /\ ctime_str = <<>>
    /\ pc = "getopt"
    /\ status = -1
    /\ trace = <<>>

Out(l) == [ev |-> "out", l |-> l]

UsageText == Out([line |-> "usage", exe |-> Arg(0)])

(***************************************************************************)
(* Option parsing: while ((opt_c = getopt_long(...)) != -1) switch ...     *)
(*                                                                         *)
(* One call of getopt_long scans from optind for the next option word,     *)
(* moves it in front of the operands it skipped and advances optind.  It   *)
(* returns -1 at "--" (which it consumes) and when no option word is left. *)
(***************************************************************************)
OptionAt == {j \in (optind + 1)..argc : argv[j] \in OptionWords \cup {"--"}}

NextOption == CHOOSE j \in OptionAt : \A k \in OptionAt : j <= k

Permuted(j) ==
    SubSeq(argv, 1, optind) \o <<argv[j]>> \o SubSeq(argv, optind + 1, j - 1)
        \o SubSeq(argv, j + 1, argc)

GetoptReturns(c) ==
    /\ pc = "getopt"
    /\ OptionAt # {}
    /\ argv[NextOption] # "--"
    /\ OptChar(argv[NextOption]) = c
    /\ argv' = Permuted(NextOption)
    /\ optind' = optind + 1

\* case 'L': follow_symlinks = 1; break;
Getopt_L ==
    /\ GetoptReturns("L")
    /\ follow_symlinks' = 1
    /\ UNCHANGED <<rc, argn, errno, finfo, atime_str, mtime_str, ctime_str,
                   pc, status, trace>>

\* case 'h': usage(argv[0]); exit(0);
Getopt_h_fallthrough ==
    /\ GetoptReturns("h")
    /\ trace' = Append(trace, UsageText)
    /\ UNCHANGED <<follow_symlinks, rc, argn, errno, finfo, atime_str,
                   mtime_str, ctime_str, pc, status>>

Getopt_h ==
    /\ GetoptReturns("h")
    /\ trace' = Append(trace, UsageText)
    /\ status' = 0
    /\ pc' = "exit(0)"
    /\ UNCHANGED <<follow_symlinks, rc, argn, errno, finfo, atime_str,
                   mtime_str, ctime_str>>

\* an option word that is not in "hL"/long_options: getopt_long writes its
\* own message to stderr and returns '?', for which the switch has no case
Getopt_unknown ==
    /\ GetoptReturns("?")
    /\ trace' = Append(trace, [ev |-> "err", written |-> TRUE,
                               parts |-> <<Arg(0), "illegal option",
                                           argv[NextOption]>>])
    /\ UNCHANGED <<follow_symlinks, rc, argn, errno, finfo, atime_str,
                   mtime_str, ctime_str, pc, status>>

\* getopt_long returns -1: the loop ends
Getopt_end ==
    /\ pc = "getopt"
    /\ \/ /\ OptionAt = {}
          /\ UNCHANGED <<argv, optind>>
       \/ /\ OptionAt # {}
          /\ argv[NextOption] = "--"
          /\ argv' = Permuted(NextOption)
          /\ optind' = optind + 1
    /\ pc' = "args"
    /\ UNCHANGED <<follow_symlinks, rc, argn, errno, finfo, atime_str,
                   mtime_str, ctime_str, status, trace>>

(***************************************************************************)
(* argn = optind; if ( argc == argn ) { ... rc = EINVAL; } else { ... }    *)
(***************************************************************************)
NoFiles_rc_unset ==
    /\ pc = "args"
    /\ argc = optind
    /\ argn' = optind
    /\ trace' = trace \o <<Out([line |-> "ERROR", text |-> "no files provided"]),
                           UsageText>>
    /\ pc' = "return"
    /\ UNCHANGED <<argv, optind, follow_symlinks, rc, errno, finfo, atime_str,
                   mtime_str, ctime_str, status>>

NoFiles ==
    /\ pc = "args"
    /\ argc = optind
    /\ argn' = optind
    /\ trace' = trace \o <<Out([line |-> "ERROR", text |-> "no files provided"]),
                           UsageText>>
    /\ rc' = EINVAL
    /\ pc' = "return"
    /\ UNCHANGED <<argv, optind, follow_symlinks, errno, finfo, atime_str,
                   mtime_str, ctime_str, status>>

HaveFiles ==
    /\ pc = "args"
    /\ argc # optind
    /\ argn' = optind
    /\ pc' = "loop"
    /\ UNCHANGED <<argv, optind, follow_symlinks, rc, errno, finfo, atime_str,
                   mtime_str, ctime_str, status, trace>>

\* stat_fn = ( follow_symlinks ? stat : lstat )
stat_fn_name == IF follow_symlinks # 0 THEN "stat" ELSE "lstat"

stat_fn(path) == IF follow_symlinks # 0 THEN stat(path) ELSE lstat(path)

(***************************************************************************)
(* while ( (rc == 0) && (argn < argc) ) { if ( stat_fn(...) == 0 ) ...     *)
(***************************************************************************)
LoopCond_ignores_rc == argn < argc

LoopCond == (rc = 0) /\ (argn < argc)

LoopExit ==
    /\ pc = "loop"
    /\ ~LoopCond
    /\ pc' = "return"
    /\ UNCHANGED <<argv, optind, follow_symlinks, rc, argn, errno, finfo,
                   atime_str, mtime_str, ctime_str, status, trace>>

StatSucceeds ==
    /\ pc = "loop"
    /\ LoopCond
    /\ stat_fn(Arg(argn)).ret = 0
    /\ finfo' = stat_fn(Arg(argn)).buf
    /\ trace' = Append(trace, [ev |-> stat_fn_name, path |-> Arg(argn), res |-> 0])
    /\ pc' = "format"
    /\ UNCHANGED <<argv, optind, follow_symlinks, rc, argn, errno, atime_str,
                   mtime_str, ctime_str, status>>

StatFails ==
    /\ pc = "loop"
    /\ LoopCond
    /\ stat_fn(Arg(argn)).ret # 0
    /\ errno' = stat_fn(Arg(argn)).err
    /\ trace' = Append(trace, [ev |-> stat_fn_name, path |-> Arg(argn),
                               res |-> stat_fn(Arg(argn)).err])
    /\ pc' = "perror"
    /\ UNCHANGED <<argv, optind, follow_symlinks, rc, argn, finfo, atime_str,
                   mtime_str, ctime_str, status>>

(***************************************************************************)
(* format_times(&finfo): the three global strings, in the order a, m, c.   *)
(***************************************************************************)
format_times_atime_twice(st) ==
    <<strftime_local(st.st_atime), strftime_local(st.st_atime),
      strftime_local(st.st_ctime)>>

format_times(st) ==
    <<strftime_local(st.st_atime), strftime_local(st.st_mtime),
      strftime_local(st.st_ctime)>>

FormatTimes ==
    /\ pc = "format"
    /\ atime_str' = format_times(finfo)[1]
    /\ mtime_str' = format_times(finfo)[2]
    /\ ctime_str' = format_times(finfo)[3]
    /\ pc' = "identity"
    /\ UNCHANGED <<argv, optind, follow_symlinks, rc, argn, errno, finfo,
                   status, trace>>

(***************************************************************************)
(* The identity line.                                                      *)
(***************************************************************************)
\* readlink() >= 0: printf("  File: `%s' -> `%s'\n", argv[argn], target)
\* prints the bytes readlink stored and whatever follows them up to a NUL
IdentityLink ==
    /\ pc = "identity"
    /\ is_symlink(finfo.st_mode)
    /\ \E tail \in Leftover :
         trace' = trace \o
            <<[ev |-> "readlink", path |-> Arg(argn), res |-> 0],
              Out([line |-> "File", path |-> Arg(argn), arrow |-> TRUE,
                   target |-> readlink(Arg(argn)) \o tail])>>
    /\ pc' = "size"
    /\ UNCHANGED <<argv, optind, follow_symlinks, rc, argn, errno, finfo,
                   atime_str, mtime_str, ctime_str, status>>

\* readlink() < 0
IdentityUnreadable_sets_rc ==
    /\ pc = "identity"
    /\ is_symlink(finfo.st_mode)
    /\ \E e \in ReadlinkErrors :
         /\ errno' = e
         /\ rc' = e
         /\ trace' = trace \o
              <<[ev |-> "readlink", path |-> Arg(argn), res |-> e],
                Out([line |-> "File", path |-> Arg(argn), arrow |-> TRUE,
                     target |-> "<unable to read target>"])>>
    /\ pc' = "size"
    /\ UNCHANGED <<argv, optind, follow_symlinks, argn, finfo,
                   atime_str, mtime_str, ctime_str, status>>

IdentityUnreadable ==
    /\ pc = "identity"
    /\ is_symlink(finfo.st_mode)
    /\ \E e \in ReadlinkErrors :
         /\ errno' = e
         /\ trace' = trace \o
              <<[ev |-> "readlink", path |-> Arg(argn), res |-> e],
                Out([line |-> "File", path |-> Arg(argn), arrow |-> TRUE,
                     target |-> "<unable to read target>"])>>
    /\ pc' = "size"
    /\ UNCHANGED <<argv, optind, follow_symlinks, rc, argn, finfo,
                   atime_str, mtime_str, ctime_str, status>>

IdentityPlain ==
    /\ pc = "identity"
    /\ ~is_symlink(finfo.st_mode)
    /\ trace' = Append(trace, Out([line |-> "File", path |-> Arg(argn),
                                   arrow |-> FALSE, target |-> ""]))
    /\ pc' = "size"
    /\ UNCHANGED <<argv, optind, follow_symlinks, rc, argn, errno, finfo,
                   atime_str, mtime_str, ctime_str, status>>

(***************************************************************************)
(* The size line and the device/inode line (one printf, then the device    *)
(* type or a bare newline).                                                *)
(***************************************************************************)
SizeLine(st) ==
    Out([line |-> "Size", size |-> st.st_size, blocks |-> st.st_blocks,
         blksize |-> st.st_blksize, type |-> file_type(st.st_mode)])

DeviceLine(st) ==
    Out([line |-> "Device", dev |-> st.st_dev, ino |-> st.st_ino,
         nlink |-> st.st_nlink,
         devtype |-> IF is_device_type(st.st_mode)
                       THEN <<major(st.st_rdev), minor(st.st_rdev)>>
                       ELSE <<>>])

SizeDeviceLines ==
    /\ pc = "size"
    /\ trace' = trace \o <<SizeLine(finfo), DeviceLine(finfo)>>
    /\ pc' = "perms"
    /\ UNCHANGED <<argv, optind, follow_symlinks, rc, argn, errno, finfo,
                   atime_str, mtime_str, ctime_str, status>>

(***************************************************************************)
(* decode_permissions(&finfo)                                              *)
(***************************************************************************)
\* "(%04o/%c%s%s%s)  Uid: (%5d/%8s)   Gid: (%5d/%8s)": one field per
\* conversion
decode_permissions(st) ==
    Out([line |-> "Perms", octal |-> st.st_mode % (S_IAMB + 1),
         typechar |-> file_type_char(st.st_mode),
         uperms |-> user_perms(st.st_mode),
         gperms |-> group_perms(st.st_mode),
         operms |-> other_perms(st.st_mode),
         uid |-> st.st_uid, uname |-> get_uid_string(st.st_uid),
         gid |-> st.st_gid, gname |-> get_gid_string(st.st_gid)])

DecodePermissions ==
    /\ pc = "perms"
    /\ trace' = Append(trace, decode_permissions(finfo))
    /\ pc' = "times"
    /\ UNCHANGED <<argv, optind, follow_symlinks, rc, argn, errno, finfo,
                   atime_str, mtime_str, ctime_str, status>>

\* printf("Access: %s\nModify: %s\nChange: %s\n", atime_str, mtime_str, ctime_str)
PrintTimes ==
    /\ pc = "times"
    /\ trace' = trace \o <<Out([line |-> "Access", text |-> atime_str]),
                           Out([line |-> "Modify", text |-> mtime_str]),
                           Out([line |-> "Change", text |-> ctime_str])>>
    /\ pc' = "next"
    /\ UNCHANGED <<argv, optind, follow_symlinks, rc, argn, errno, finfo,
                   atime_str, mtime_str, ctime_str, status>>

(***************************************************************************)
(* perror("Unable to stat() file"); rc = errno;                            *)
(*                                                                         *)
(* perror writes its argument, ": ", the description of errno and a        *)
(* newline to stderr.  When that write fails (stderr closed) nothing is    *)
(* written and errno is set to the error of the write.                     *)
(***************************************************************************)
PerrorText_no_description(e) == <<"Unable to stat() file">>

PerrorText(e) == <<"Unable to stat() file", ": ", strerror(e)>>

Perror ==
    /\ pc = "perror"
    /\ \E written \in BOOLEAN :
         /\ trace' = Append(trace, [ev |-> "err", written |-> written,
                                    parts |-> PerrorText(errno)])
         /\ errno' = IF written THEN errno ELSE EBADF
    /\ pc' = "saverc"
    /\ UNCHANGED <<argv, optind, follow_symlinks, rc, argn, finfo, atime_str,
                   mtime_str, ctime_str, status>>

SaveErrno ==
    /\ pc = "saverc"
    /\ rc' = errno
    /\ pc' = "next"
    /\ UNCHANGED <<argv, optind, follow_symlinks, argn, errno, finfo,
                   atime_str, mtime_str, ctime_str, status, trace>>

\* argn++
NextArg ==
    /\ pc = "next"
    /\ argn' = argn + 1
    /\ pc' = "loop"
    /\ UNCHANGED <<argv, optind, follow_symlinks, rc, errno, finfo, atime_str,
                   mtime_str, ctime_str, status, trace>>

\* return rc: the low eight bits become the exit status
Return ==
    /\ pc = "return"
    /\ status' = rc % 256
    /\ pc' = "returned"
    /\ UNCHANGED <<argv, optind, follow_symlinks, rc, argn, errno, finfo,
                   atime_str, mtime_str, ctime_str, trace>>

Next ==
    \/ Getopt_L
    \/ Getopt_h
    \/ Getopt_unknown
    \/ Getopt_end
    \/ NoFiles
    \/ HaveFiles
    \/ LoopExit
    \/ StatSucceeds
    \/ StatFails
    \/ FormatTimes
    \/ IdentityLink
    \/ IdentityUnreadable
    \/ IdentityPlain
    \/ SizeDeviceLines
    \/ DecodePermissions
    \/ PrintTimes
    \/ Perror
    \/ SaveErrno
    \/ NextArg
    \/ Return

Spec == Init /\ [][Next]_vars

(***************************************************************************)
(* The permissions line for every mode value: decode_permissions applied   *)
(* to a record whose st_mode ranges over all sixteen bits, at the point    *)
(* of main() where it is called.                                           *)
(***************************************************************************)
ModeRec(mode) == StatRec(mode, 0, 0, 1024, 11, 0, 1517501132, 1516683698, 1516683698)

InitMode ==
    /\ argv = <<"stat", "f">>
    /\ optind = 1
    /\ follow_symlinks = 0
    /\ rc = 0
    /\ argn = 1
    /\ errno = 0
    /\ \E mode \in 0..(S_IFMT + 4095) :
         /\ finfo = ModeRec(mode)
         /\ atime_str = format_times(ModeRec(mode))[1]
         /\ mtime_str = format_times(ModeRec(mode))[2]
         /\ ctime_str = format_times(ModeRec(mode))[3]
         /\ trace = <<[ev |-> "lstat", path |-> "f", res |-> 0]>>
                      \o (IF is_symlink(mode)
                            THEN <<[ev |-> "readlink", path |-> "f", res |-> 0],
                                   Out([line |-> "File", path |-> "f",
                                        arrow |-> TRUE, target |-> "g"])>>
                            ELSE <<Out([line |-> "File", path |-> "f",
                                        arrow |-> FALSE, target |-> ""])>>)
                      \o <<SizeLine(ModeRec(mode)), DeviceLine(ModeRec(mode))>>
    /\ pc = "perms"
    /\ status = -1

NextMode == DecodePermissions

SpecMode == InitMode /\ [][NextMode]_vars

(***************************************************************************)
(* Reading the trace.                                                      *)
(***************************************************************************)
IsQuery(e) == e.ev \in {"stat", "lstat"}

IsOut(e) == e.ev = "out"

QueryAt == {i \in 1..Len(trace) : IsQuery(trace[i])}

Queries == SelectSeq(trace, IsQuery)

QueriedPaths == [i \in 1..Len(Queries) |-> Queries[i].path]

AllQueriesSucceeded == \A i \in 1..Len(Queries) : Queries[i].res = 0

OutLines ==
    LET outs == SelectSeq(trace, IsOut)
    IN  [i \in 1..Len(outs) |-> outs[i].l]

\* the path operands, once option parsing is over
Operands == SubSeq(argv, optind + 1, argc)

IsPrefix(s, t) == Len(s) <= Len(t) /\ SubSeq(t, 1, Len(s)) = s

\* the last index of the trace that belongs to the query at index i
BlockEnd(i) ==
    IF \E j \in QueryAt : j > i
      THEN (CHOOSE j \in QueryAt : j > i /\ \A k \in QueryAt : k > i => j <= k) - 1
      ELSE Len(trace)

\* the lines written for the query at index i
Block(i) ==
    LET outs == SelectSeq(SubSeq(trace, i + 1, BlockEnd(i)), IsOut)
    IN  [k \in 1..Len(outs) |-> outs[k].l]

\* the iteration of the query at index i is over
BlockOver(i) ==
    BlockEnd(i) < Len(trace) \/ pc \in {"next", "loop", "return", "returned"}

\* the record the query at index i filled in
QueryRec(i) ==
    IF trace[i].ev = "stat" THEN stat(trace[i].path).buf
                            ELSE lstat(trace[i].path).buf

BlockTags == <<"File", "Size", "Device", "Perms", "Access", "Modify", "Change">>

Tags(b) == [k \in 1..Len(b) |-> b[k].line]

ModeText(l) == l.typechar \o l.uperms \o l.gperms \o l.operms

C2_ExitStatus ==
    pc = "returned" =>
      /\ status = 0 <=> (Len(Operands) >= 1 /\ AllQueriesSucceeded)
      /\ ~AllQueriesSucceeded =>
           LET last == CHOOSE i \in 1..Len(Queries) :
                         /\ Queries[i].res # 0
                         /\ \A j \in 1..Len(Queries) : Queries[j].res # 0 => j <= i
           IN  status # 0 /\ status = Queries[last].res

\* what does hold of the exit status: it is that of the failed query when
\* the error report was written, and the error of the write otherwise
C2_ExitStatusAfterReport ==
    pc = "returned" =>
      /\ status = 0 <=> (Len(Operands) >= 1 /\ AllQueriesSucceeded)
      /\ ~AllQueriesSucceeded =>
           /\ status # 0
           /\ trace[Len(trace)].ev = "err"
           /\ status = IF trace[Len(trace)].written
                         THEN Queries[Len(Queries)].res
                         ELSE EBADF

(***************************************************************************)
(* C3.                                                                     *)
(***************************************************************************)
\* C3: when no path operand remains after option parsing (with or without
\* -L), main prints the error message and then the usage text, makes no
\* query, and exits with EINVAL, which is not zero.
C3_NoPathsIsUsageError ==
    (pc \in {"return", "returned"} /\ argc = optind) =>
      /\ OutLines = <<[line |-> "ERROR", text |-> "no files provided"],
                      [line |-> "usage", exe |-> "stat"]>>
      /\ Queries = <<>>
      /\ rc = EINVAL
      /\ pc = "returned" => (status = EINVAL /\ status # 0)

C3_Witness ==
    /\ pc = "returned"
    /\ argc = optind
    /\ argc = 3
    /\ follow_symlinks = 1
    /\ status = EINVAL

(***************************************************************************)
(* C4.                                                                     *)
(***************************************************************************)
\* C4: once the usage text has been printed for -h/--help the process has
\* exited with status 0: the usage text is all that was printed, no query
\* was made, and nothing follows, whatever else is on the command line.
C4_HelpExitsAtOnce ==
    (OutLines # <<>> /\ OutLines[1].line = "usage") =>
      /\ pc = "exit(0)"
      /\ status = 0
      /\ OutLines = <<[line |-> "usage", exe |-> "stat"]>>
      /\ Queries = <<>>

C4_Witness ==
    /\ pc = "exit(0)"
    /\ follow_symlinks = 1
    /\ \E i \in 2..argc : argv[i] \in DOMAIN FS
    /\ OutLines = <<[line |-> "usage", exe |-> "stat"]>>

ClaimedExec(st_mode, special, exec, lower, upper) ==
    IF HasBit(st_mode, special)
      THEN (IF HasBit(st_mode, exec) THEN lower ELSE upper)
      ELSE (IF HasBit(st_mode, exec) THEN "x" ELSE "-")

ClaimedMode(st_mode) ==
       file_type_char(st_mode)
    \o (IF HasBit(st_mode, S_IRUSR) THEN "r" ELSE "-")
    \o (IF HasBit(st_mode, S_IWUSR) THEN "w" ELSE "-")
    \o ClaimedExec(st_mode, S_ISUID, S_IXUSR, "s", "S")
    \o (IF HasBit(st_mode, S_IRGRP) THEN "r" ELSE "-")
    \o (IF HasBit(st_mode, S_IWGRP) THEN "w" ELSE "-")
    \o ClaimedExec(st_mode, S_ISGID, S_IXGRP, "s", "S")
    \o (IF HasBit(st_mode, S_IROTH) THEN "r" ELSE "-")
    \o (IF HasBit(st_mode, S_IWOTH) THEN "w" ELSE "-")
    \o ClaimedExec(st_mode, S_ISVTX, S_IXOTH, "t", "T")

\* C6: for every mode value the symbolic mode of the permissions line has
\* 10 characters: the type character, then the owner, group and other
\* triplets with s/S for setuid and setgid and t/T for sticky in the
\* execute position.
C6_SymbolicMode ==
    \A i \in 1..Len(OutLines) :
      OutLines[i].line = "Perms" =>
        /\ Len(ModeText(OutLines[i])) = 10
        /\ ModeText(OutLines[i]) = ClaimedMode(finfo.st_mode)

\* what does hold for every mode value: 10 characters, and the claimed
\* text whenever the sticky bit is clear
C6_SymbolicModeUnlessSticky ==
    \A i \in 1..Len(OutLines) :
      OutLines[i].line = "Perms" =>
        /\ Len(ModeText(OutLines[i])) = 10
        /\ ~HasBit(finfo.st_mode, S_ISVTX) =>
             ModeText(OutLines[i]) = ClaimedMode(finfo.st_mode)

(***************************************************************************)
(* C7.                                                                     *)
(***************************************************************************)
\* the lines of a path that is not a symbolic link
PlainBlock(path) ==
    LET st == FS[path].st
        l(e) == e.l
    IN  <<[line |-> "File", path |-> path, arrow |-> FALSE, target |-> ""],
          l(SizeLine(st)), l(DeviceLine(st)), l(decode_permissions(st)),
          [line |-> "Access", text |-> strftime_local(st.st_atime)],
          [line |-> "Modify", text |-> strftime_local(st.st_mtime)],
          [line |-> "Change", text |-> strftime_local(st.st_ctime)]>>

\* the query at index i is of a link whose target exists, and its link was
\* read
LinkWithTarget(i) ==
    /\ trace[i].path \in DOMAIN FS
    /\ FS[trace[i].path].kind = "symlink"
    /\ stat(trace[i].path).ret = 0
    /\ trace[i].res = 0

C7_LinkBlock(i, exact) ==
    LET path == trace[i].path
        b    == Block(i)
    IN  IF trace[i].ev = "lstat"
          THEN (Len(trace) > i /\ trace[i + 1].res = 0) =>
                 /\ Len(b) >= 1 =>
                      /\ b[1].arrow
                      /\ exact => b[1].target = FS[path].target
                      /\ \E tail \in Leftover :
                           b[1].target = FS[path].target \o tail
                 /\ Len(b) >= 2 => b[2].type = "symbolic link"
                 /\ Len(b) >= 4 => b[4].typechar = "l"
          ELSE /\ Len(b) >= 1 => (~b[1].arrow /\ b[1].target = "")
               /\ Len(b) >= 2 => b[2].type = file_type(stat(path).buf.st_mode)
               /\ Len(b) >= 4 =>
                    b[4].typechar = file_type_char(stat(path).buf.st_mode)

C7_FileBlock(i) ==
    (trace[i].path \in DOMAIN FS /\ FS[trace[i].path].kind = "file") =>
       /\ IsPrefix(Block(i), PlainBlock(trace[i].path))
       /\ BlockOver(i) => Block(i) = PlainBlock(trace[i].path)

\* C7: a link whose target exists is reported as the link without -L (type
\* l, "symbolic link", the identity line ends in -> target) and as its
\* target with -L (the target's type, no arrow); a path that is not a link
\* gets the same lines with and without -L.
C7_Dereference ==
    \A i \in QueryAt :
      /\ LinkWithTarget(i) => C7_LinkBlock(i, TRUE)
      /\ C7_FileBlock(i)

\* what does hold: the same, except that the text after the arrow only
\* starts with the target
C7_DereferenceButTarget ==
    \A i \in QueryAt :
      /\ LinkWithTarget(i) => C7_LinkBlock(i, FALSE)
      /\ C7_FileBlock(i)

(***************************************************************************)
(* C8.                                                                     *)
(***************************************************************************)
\* C8: the permissions line prints, next to each numeric id, the name of
\* its entry in the identity database, and the literal <unknown> when the
\* database has no entry for the id.
C8_IdNames ==
    \A i \in 1..Len(OutLines) :
      OutLines[i].line = "Perms" =>
        /\ OutLines[i].uname =
             IF OutLines[i].uid \in DOMAIN Passwd
               THEN Passwd[OutLines[i].uid].fields[1] ELSE "<unknown>"
        /\ OutLines[i].gname =
             IF OutLines[i].gid \in DOMAIN Group
               THEN Group[OutLines[i].gid].fields[1] ELSE "<unknown>"

\* what does hold: the name when the entry fits the 1024-byte buffer,
\* <unknown> when there is no entry or it does not fit
C8_IdNamesThatFit ==
    \A i \in 1..Len(OutLines) :
      OutLines[i].line = "Perms" =>
        /\ OutLines[i].uname =
             IF OutLines[i].uid \in DOMAIN Passwd
                  /\ Passwd[OutLines[i].uid].bytes < 1024
               THEN Passwd[OutLines[i].uid].fields[1] ELSE "<unknown>"
        /\ OutLines[i].gname =
             IF OutLines[i].gid \in DOMAIN Group
                  /\ Group[OutLines[i].gid].bytes < 1024
               THEN Group[OutLines[i].gid].fields[1] ELSE "<unknown>"

(***************************************************************************)
(* C9.                                                                     *)
(***************************************************************************)
\* the query at index i reported a link whose target could then not be read
UnreadableAt(i) ==
    /\ trace[i].res = 0
    /\ Len(trace) > i
    /\ trace[i + 1].ev = "readlink"
    /\ trace[i + 1].res # 0

\* C9: when the query reports a link and reading its target fails, the
\* identity line carries <unable to read target>, the other six lines of
\* the path are printed as for any path, the exit code stays as it was
\* (0), and the next path, if there is one, is queried.
C9_UnreadableTargetNotFatal ==
    \A i \in QueryAt :
      UnreadableAt(i) =>
        /\ trace[i].ev = "lstat"
        /\ IsPrefix(Tags(Block(i)), BlockTags)
        /\ Block(i)[1] = [line |-> "File", path |-> trace[i].path,
                          arrow |-> TRUE, target |-> "<unable to read target>"]
        /\ BlockOver(i) => Tags(Block(i)) = BlockTags
        /\ BlockEnd(i) = Len(trace) => (rc = 0 /\ status \in {-1, 0})
        /\ (pc = "returned" /\ Queries[Len(Queries)].res = 0) =>
             QueriedPaths = Operands

C9_Witness ==
    /\ pc = "returned"
    /\ status = 0
    /\ Len(Queries) = 2
    /\ \E i \in QueryAt :
         /\ UnreadableAt(i)
         /\ BlockEnd(i) < Len(trace)
         /\ Tags(Block(i)) = BlockTags

(***************************************************************************)
(* C10.                                                                    *)
(***************************************************************************)
\* C10: for every path whose query succeeded the lines are written in the
\* order identity, size, device/inode, permissions, Access, Modify, Change,
\* all of them before the next query; the device/inode line carries the
\* major and minor numbers exactly when the type is a character or block
\* device; and the three times are those of the record of that query.
C10_OrderedBlocks ==
    \A i \in QueryAt :
      LET b  == Block(i)
          st == QueryRec(i)
      IN  IF trace[i].res # 0
            THEN b = <<>>
            ELSE /\ IsPrefix(Tags(b), BlockTags)
                 /\ BlockOver(i) => Tags(b) = BlockTags
                 /\ Len(b) >= 1 => b[1].path = trace[i].path
                 /\ Len(b) >= 3 =>
                      /\ b[3].devtype # <<>> <=>
                           b[2].type \in {"character device", "block device"}
                      /\ b[3].devtype # <<>> =>
                           b[3].devtype = <<major(st.st_rdev), minor(st.st_rdev)>>
                 /\ Len(b) >= 7 =>
                      /\ b[5].text = strftime_local(st.st_atime)
                      /\ b[6].text = strftime_local(st.st_mtime)
                      /\ b[7].text = strftime_local(st.st_ctime)
                      /\ (trace[i].path = "reg") =>
                           /\ b[5].text = <<2018, 2, 1, 11, 5, 32, "-", 5, 0>>
                           /\ b[6].text = <<2018, 1, 23, 0, 1, 38, "-", 5, 0>>

C10_Witness ==
    /\ pc = "returned"
    /\ QueriedPaths = <<"tty", "reg">>
    /\ AllQueriesSucceeded
    /\ \A i \in QueryAt : Len(Block(i)) = 7
    /\ \E i \in QueryAt : Block(i)[3].devtype = <<24, 1>>
    /\ \E i \in QueryAt : Block(i)[3].devtype = <<>>

====
